---- MODULE Spec2Model ----
(***************************************************************************)
(* Model of annotate_remaining_cells (src/auto.py, lines 140-251), the     *)
(* live definition of the script (lines 1-133 are a commented-out earlier  *)
(* revision).                                                              *)
(*                                                                         *)
(* Coordinates are exact integers in units of 0.005 of the image, so the   *)
(* grouping tolerance 0.01 is 2 units.  A box is the tuple <<x, y, w, h>>  *)
(* (Python's c[0], c[1], c[2], c[3] are b[1], b[2], b[3], b[4] here).      *)
(* Half heights are avoided by comparing doubled edges: y + h/2 >= t is    *)
(* checked as 2*y + h >= 2*t.  Floating-point rounding is not modelled:    *)
(* the numbers are exact, and "a difference equal to the tolerance" is a   *)
(* difference that compares equal to y_tolerance.                          *)
(***************************************************************************)
EXTENDS Integers, Sequences, FiniteSets

\* ------------------------------------------------------------------ bounds
\* Longest input, in lines.
MaxLines == 5

\* ------------------------------------------------------------- constants
\* y_tolerance=0.01 of group_into_rows, in units of 0.005.
y_tolerance == 2

\* Python's None (an unassigned table_box); unbound locals are <<>> too.
None == <<>>

X(b) == b[1]
Y(b) == b[2]
W(b) == b[3]
H(b) == b[4]

\* ---------------------------------------------------------------- inputs
\* A line is the sequence of its whitespace-separated fields, already read
\* as numbers: <<class_id, x, y, w, h>> when well formed.  The inputs are
\* all texts of at most MaxLines lines over LineSet: one large box, cells
\* at y = 0..3 in two columns (two of them at the same centre with
\* different heights, two of them one tolerance apart), three class ids
\* (one of them the placeholder -1), and a line of four fields.
LineSet ==
  { <<0, 3, 6, 6, 4>>,
    <<0, 2, 0, 1, 1>>,
    <<0, 2, 0, 1, 2>>,
    <<0, 1, 1, 1, 1>>,
    <<0, 1, 2, 1, 1>>,
    <<2, 2, 3, 1, 2>>,
    <<-1, 2, 2, 1, 1>>,
    <<0, 1, 2, 1>> }

Inputs == UNION { [1..n -> LineSet] : n \in 0..MaxLines }

VARIABLES
  raw_data,        \* the input text, as its sequence of non-blank lines
  pc,              \* position in annotate_remaining_cells
  annotations,     \* the defaultdict, as the sequence of [class_id, boxes] in insertion order
  table_box,       \* None or the table's box
  header_cells,
  data_cells,
  all_rows,        \* result of group_into_rows(data_cells)
  row_pitch,       \* <<>> until line 231 assigns it, then <<pitch>>
  generated_rows,
  last_row,
  iterations,      \* candidate rows built by the while loop so far
  err,             \* the exception raised, "" when none
  result           \* <<>> until the function returns, then <<generated_rows>>

vars == << raw_data, pc, annotations, table_box, header_cells, data_cells,
           all_rows, row_pitch, generated_rows, last_row, iterations, err, result >>

\* ------------------------------------------------------------------ parse
\* annotations[class_id].append(coords) on an insertion-ordered dict.
DictAppend(d, class_id, coords) ==
  IF \E i \in 1..Len(d) : d[i].class_id = class_id
  THEN [i \in 1..Len(d) |->
          IF d[i].class_id = class_id
          THEN [d[i] EXCEPT !.boxes = Append(@, coords)]
          ELSE d[i]]
  ELSE Append(d, [class_id |-> class_id, boxes |-> <<coords>>])

RECURSIVE ParseLines(_, _)
ParseLines(lines, d) ==
  IF lines = <<>> THEN d
  ELSE LET parts == Head(lines) IN
       IF Len(parts) # 5
       THEN ParseLines(Tail(lines), d)
       ELSE ParseLines(Tail(lines),
                       DictAppend(d, parts[1], SubSeq(parts, 2, 5)))

\* [box for boxes in annotations.values() for box in boxes]
RECURSIVE Flatten(_)
Flatten(d) ==
  IF d = <<>> THEN <<>> ELSE Head(d).boxes \o Flatten(Tail(d))

all_boxes == Flatten(annotations)

Area(b) == W(b) * H(b)

\* Mutant of MaxByArea: the key is the width alone.
MaxByWidth(boxes) ==
  boxes[CHOOSE i \in 1..Len(boxes) :
          /\ \A j \in 1..Len(boxes) : W(boxes[j]) <= W(boxes[i])
          /\ \A j \in 1..(i - 1) : W(boxes[j]) < W(boxes[i])]

\* max(all_boxes, key=area): the first box of maximal key.
MaxByArea(boxes) ==
  boxes[CHOOSE i \in 1..Len(boxes) :
          /\ \A j \in 1..Len(boxes) : Area(boxes[j]) <= Area(boxes[i])
          /\ \A j \in 1..(i - 1) : Area(boxes[j]) < Area(boxes[i])]

SelectTable(boxes) ==
  IF Len(boxes) > 1 THEN MaxByArea(boxes) ELSE None

\* ------------------------------------------------------------- partition
\* The loop of lines 176-185 over the boxes of the classes other than -1,
\* in dictionary order; st is [header, data].
RECURSIVE PartitionBoxes(_, _, _)
PartitionBoxes(boxes, table, st) ==
  IF boxes = <<>> THEN st
  ELSE LET box == Head(boxes) IN
       IF box = table
       THEN PartitionBoxes(Tail(boxes), table, st)
       ELSE IF st.header = <<>> \/ Y(box) < Y(st.header[1])
       THEN PartitionBoxes(Tail(boxes), table,
                           [st EXCEPT !.header = Append(@, box)])
       ELSE PartitionBoxes(Tail(boxes), table,
                           [st EXCEPT !.data = Append(@, box)])

SkipPlaceholder(d) == SelectSeq(d, LAMBDA e : e.class_id # -1)

Partition(d, table) ==
  PartitionBoxes(Flatten(SkipPlaceholder(d)), table,
                 [header |-> <<>>, data |-> <<>>])

\* ------------------------------------------------------------------ state
Init ==
  /\ raw_data \in Inputs
  /\ pc = "parse"
  /\ annotations = <<>>
  /\ table_box = None
  /\ header_cells = <<>>
  /\ data_cells = <<>>
  /\ all_rows = <<>>
  /\ row_pitch = <<>>
  /\ generated_rows = <<>>
  /\ last_row = <<>>
  /\ iterations = 0
  /\ err = ""
  /\ result = <<>>

\* Lines 151-160.
Parse ==
  /\ pc = "parse"
  /\ annotations' = ParseLines(raw_data, <<>>)
  /\ pc' = "identify"
  /\ UNCHANGED << raw_data, table_box, header_cells, data_cells, all_rows,
                  row_pitch, generated_rows, last_row, iterations, err, result >>


\* -------------------------------------------------------------- identify
NoValidAnnotations == "ValueError: No valid annotations found"
EmptyMin == "ValueError: min() arg is an empty sequence"
NeedTwoRows == "ValueError: Need at least two complete rows to detect pattern"
IndexError == "IndexError: list index out of range"

\* Mutant of NoBoxes: the check of line 166 left out.
NoBoxes_Never(boxes) == FALSE

\* Line 166: if not all_boxes.
NoBoxes(boxes) == boxes = <<>>

\* Lines 166-167.
RaiseNoAnnotations ==
  /\ pc = "identify"
  /\ NoBoxes(all_boxes)
  /\ pc' = "error"
  /\ err' = NoValidAnnotations
  /\ UNCHANGED << raw_data, annotations, table_box, header_cells, data_cells,
                  all_rows, row_pitch, generated_rows, last_row, iterations,
                  result >>

\* Lines 170-185; a table that was found skips the block of lines 188-200.
Identify ==
  /\ pc = "identify"
  /\ ~NoBoxes(all_boxes)
  /\ LET table == SelectTable(all_boxes)
         st == Partition(annotations, table)
     IN /\ table_box' = table
        /\ header_cells' = st.header
        /\ data_cells' = st.data
        /\ pc' = IF table = None THEN "edge" ELSE "group"
  /\ UNCHANGED << raw_data, annotations, all_rows, row_pitch, generated_rows,
                  last_row, iterations, err, result >>

\* ------------------------------------------------------------ edge cases
SeqMin(s) == CHOOSE m \in { s[i] : i \in 1..Len(s) } :
               \A i \in 1..Len(s) : m <= s[i]
SeqMax(s) == CHOOSE m \in { s[i] : i \in 1..Len(s) } :
               \A i \in 1..Len(s) : m >= s[i]

\* Lines 190-200.  table_box is None only when there is a single box, so
\* every min equals its max and both divisions by two are exact.
EstimateTable(all_cells) ==
  LET x_centers == [i \in 1..Len(all_cells) |-> X(all_cells[i])]
      y_centers == [i \in 1..Len(all_cells) |-> Y(all_cells[i])]
      widths == [i \in 1..Len(all_cells) |-> W(all_cells[i])]
      heights == [i \in 1..Len(all_cells) |-> H(all_cells[i])]
      table_x == (SeqMin(x_centers) + SeqMax(x_centers)) \div 2
      table_y == (SeqMin(y_centers) + SeqMax(y_centers)) \div 2
      table_w == (2 * SeqMax(x_centers) + SeqMax(widths)
                   - (2 * SeqMin(x_centers) - SeqMin(widths))) \div 2
      table_h == (2 * SeqMax(y_centers) + SeqMax(heights)
                   - (2 * SeqMin(y_centers) - SeqMin(heights))) \div 2
  IN << table_x, table_y, table_w, table_h >>

\* Lines 188-200, with cells to estimate from.
SynthesizeTable ==
  /\ pc = "edge"
  /\ header_cells \o data_cells # <<>>
  /\ table_box' = EstimateTable(header_cells \o data_cells)
  /\ pc' = "group"
  /\ UNCHANGED << raw_data, annotations, header_cells, data_cells, all_rows,
                  row_pitch, generated_rows, last_row, iterations, err, result >>

\* Line 196 on no cells at all (the only box has class -1): min() raises.
RaiseEmptyMin ==
  /\ pc = "edge"
  /\ header_cells \o data_cells = <<>>
  /\ pc' = "error"
  /\ err' = EmptyMin
  /\ UNCHANGED << raw_data, annotations, table_box, header_cells, data_cells,
                  all_rows, row_pitch, generated_rows, last_row, iterations,
                  result >>

\* -------------------------------------------------------- group_into_rows
\* sorted(s, key=...): Python's sort is stable, so an element goes after
\* the elements of a smaller key and after the earlier ones of an equal key.
\* less holds the pairs <<i, j>> of places with key(s[i]) < key(s[j]).
SortedBy(s, less) ==
  LET n == Len(s)
      pos(i) == Cardinality({ j \in 1..n :
                   <<j, i>> \in less \/ (<<i, j>> \notin less /\ j < i) }) + 1
  IN [k \in 1..n |-> s[CHOOSE i \in 1..n : pos(i) = k]]

Places(s) == (1..Len(s)) \X (1..Len(s))

\* key=lambda c: (c[1], c[0])
LtYX(a, b) == Y(a) < Y(b) \/ (Y(a) = Y(b) /\ X(a) < X(b))
\* key=lambda c: c[0]
LtX(a, b) == X(a) < X(b)

\* key=lambda c: (c[0], c[1])
LtXY(a, b) == X(a) < X(b) \/ (X(a) = X(b) /\ Y(a) < Y(b))

\* Mutant of SortCells: the two parts of the sort key exchanged.
SortCells_XY(cells) ==
  SortedBy(cells, { p \in Places(cells) : LtXY(cells[p[1]], cells[p[2]]) })

\* Line 208.
SortCells(cells) ==
  SortedBy(cells, { p \in Places(cells) : LtYX(cells[p[1]], cells[p[2]]) })
\* Lines 217 and 221.
SortRow(row) ==
  SortedBy(row, { p \in Places(row) : LtX(row[p[1]], row[p[2]]) })

Abs(n) == IF n < 0 THEN -n ELSE n

\* Mutant of SameRow: <= for <.
SameRow_Inclusive(cell, last) == Abs(Y(cell) - Y(last)) <= y_tolerance

\* Line 214: abs(cell[1] - current_row[-1][1]) < y_tolerance.
SameRow(cell, last) == Abs(Y(cell) - Y(last)) < y_tolerance

\* Lines 213-221.
RECURSIVE ScanCells(_, _, _)
ScanCells(rest, rows, current_row) ==
  IF rest = <<>>
  THEN Append(rows, SortRow(current_row))
  ELSE LET cell == Head(rest) IN
       IF SameRow(cell, current_row[Len(current_row)])
       THEN ScanCells(Tail(rest), rows, Append(current_row, cell))
       ELSE ScanCells(Tail(rest), Append(rows, SortRow(current_row)), <<cell>>)

\* Lines 203-223.
group_into_rows(cells) ==
  IF cells = <<>> THEN <<>>
  ELSE LET sorted_cells == SortCells(cells)
       IN ScanCells(Tail(sorted_cells), <<>>, <<Head(sorted_cells)>>)

\* Line 225.
GroupRows ==
  /\ pc = "group"
  /\ all_rows' = group_into_rows(data_cells)
  /\ pc' = "check"
  /\ UNCHANGED << raw_data, annotations, table_box, header_cells, data_cells,
                  row_pitch, generated_rows, last_row, iterations, err, result >>

\* Mutant of TooFewRows: one row is taken to be enough.
TooFewRows_One(rows) == Len(rows) < 1

\* Line 227: len(all_rows) < 2.
TooFewRows(rows) == Len(rows) < 2

\* Lines 227-228.
RaiseTooFewRows ==
  /\ pc = "check"
  /\ TooFewRows(all_rows)
  /\ pc' = "error"
  /\ err' = NeedTwoRows
  /\ UNCHANGED << raw_data, annotations, table_box, header_cells, data_cells,
                  all_rows, row_pitch, generated_rows, last_row, iterations,
                  result >>

\* ----------------------------------------------------------------- pitch
\* Line 231: all_rows[1][0][1] - all_rows[0][0][1].
RowPitch(rows) == Y(rows[2][1]) - Y(rows[1][1])

\* Mutant of TableBottom2: the height not halved.
TableBottom2_NoHalf(table) == 2 * Y(table) + 2 * H(table)

\* Line 236, doubled: 2 * (table_box[1] + table_box[3]/2).
TableBottom2(table) == 2 * Y(table) + H(table)

\* Lines 231-236.  Indexing a second row that does not exist raises.
ComputePitch ==
  /\ pc = "check"
  /\ ~TooFewRows(all_rows)
  /\ IF Len(all_rows) >= 2
     THEN /\ row_pitch' = << RowPitch(all_rows) >>
          /\ generated_rows' = <<>>
          /\ last_row' = all_rows[Len(all_rows)]
          /\ pc' = "loop"
          /\ err' = err
     ELSE /\ pc' = "error"
          /\ err' = IndexError
          /\ UNCHANGED << row_pitch, generated_rows, last_row >>
  /\ UNCHANGED << raw_data, annotations, table_box, header_cells, data_cells,
                  all_rows, iterations, result >>

\* ------------------------------------------------------------- generation
\* Mutant of NewCell: width and height exchanged.
NewCell_SwapWH(cell, pitch) == << X(cell), Y(cell) + pitch, H(cell), W(cell) >>

\* Line 241.
NewCell(cell, pitch) == << X(cell), Y(cell) + pitch, W(cell), H(cell) >>

\* Lines 239-242.
NewRow(row, pitch) == [i \in 1..Len(row) |-> NewCell(row[i], pitch)]

\* Mutant of ExceedsTable: > for >=.
ExceedsTable_Strict(new_row, table) ==
  2 * Y(new_row[1]) + H(new_row[1]) > TableBottom2(table)

\* Line 245, doubled: new_row[0][1] + new_row[0][3]/2 >= table_bottom.
ExceedsTable(new_row, table) ==
  2 * Y(new_row[1]) + H(new_row[1]) >= TableBottom2(table)

\* Bound on the loop of the model; the code has none.
MaxIterations == 12

\* Lines 238-249, an iteration that keeps its row.
GenerateRow ==
  /\ pc = "loop"
  /\ iterations < MaxIterations
  /\ LET new_row == NewRow(last_row, row_pitch[1])
     IN /\ ~ExceedsTable(new_row, table_box)
        /\ generated_rows' = Append(generated_rows, new_row)
        /\ last_row' = new_row
  /\ iterations' = iterations + 1
  /\ UNCHANGED << raw_data, pc, annotations, table_box, header_cells,
                  data_cells, all_rows, row_pitch, err, result >>

\* Lines 238-246 and 251: the iteration that breaks, and the return.
StopGeneration ==
  /\ pc = "loop"
  /\ iterations < MaxIterations
  /\ LET new_row == NewRow(last_row, row_pitch[1])
     IN ExceedsTable(new_row, table_box)
  /\ iterations' = iterations + 1
  /\ result' = << generated_rows >>
  /\ pc' = "done"
  /\ UNCHANGED << raw_data, annotations, table_box, header_cells, data_cells,
                  all_rows, row_pitch, generated_rows, last_row, err >>

Next ==
  \/ Parse
  \/ RaiseNoAnnotations
  \/ Identify
  \/ SynthesizeTable
  \/ RaiseEmptyMin
  \/ GroupRows
  \/ RaiseTooFewRows
  \/ ComputePitch
  \/ GenerateRow
  \/ StopGeneration

Spec == Init /\ [][Next]_vars

\* ---------------------------------------------------------------- helpers
CeilDiv(a, b) == (a + b - 1) \div b

\* group_into_rows has returned.
AfterGrouping ==
  \/ pc \in {"check", "loop", "done"}
  \/ pc = "error" /\ err \in {NeedTwoRows, IndexError}

\* Lines 170-185 have run on more than one box.
Identified ==
  /\ Len(all_boxes) > 1
  /\ pc \in {"group", "check", "loop", "done"} \/ (pc = "error" /\ err # NoValidAnnotations)

\* The row the loop starts from, all_rows[-1].
LastKnownRow == all_rows[Len(all_rows)]

\* Doubled bottom edge of the representative (first) box of a row.
RowBottom2(row) == 2 * Y(row[1]) + H(row[1])

\* Doubled top edge of the table.
TableTop2(table) == 2 * Y(table) - H(table)

\* ------------------------------------------------------------------- C2
\* C2 (as claimed): with a positive pitch the loop is done after at most
\* ceil(table_height / pitch) candidate rows, for every table box and every
\* last known row.
C2_Original ==
  pc = "done" => iterations <= CeilDiv(H(table_box), row_pitch[1])

\* C2 (amended): with a positive pitch and a table of positive height, when
\* the bottom edge of the last known row's first box is not above the
\* table's top edge, the loop is done after at most
\* ceil(table_height / pitch) candidate rows.
C2_BoundInsideTable ==
  (/\ pc \in {"loop", "done"}
   /\ row_pitch[1] > 0
   /\ H(table_box) > 0
   /\ RowBottom2(LastKnownRow) >= TableTop2(table_box))
  => /\ iterations <= CeilDiv(H(table_box), row_pitch[1])
     /\ pc = "loop" => iterations < CeilDiv(H(table_box), row_pitch[1])
     /\ pc = "loop" => iterations < MaxIterations

C2_Witness ==
  /\ pc = "done"
  /\ row_pitch[1] > 0
  /\ RowBottom2(LastKnownRow) >= TableTop2(table_box)
  /\ iterations = CeilDiv(H(table_box), row_pitch[1])
  /\ iterations >= 2
  /\ Len(generated_rows) >= 1

\* ------------------------------------------------------------------- C3
\* C3: every row of the output has the bottom edge of its first box strictly
\* above the table's bottom edge; a candidate that touches it is dropped.
C3_RowsInsideTable ==
  /\ \A k \in 1..Len(generated_rows) :
        RowBottom2(generated_rows[k]) < TableBottom2(table_box)
  /\ result # <<>> =>
        /\ result[1] = generated_rows
        /\ RowBottom2(NewRow(last_row, row_pitch[1])) >= TableBottom2(table_box)

C3_Witness ==
  /\ pc = "done"
  /\ Len(result[1]) >= 1
  /\ RowBottom2(NewRow(last_row, row_pitch[1])) = TableBottom2(table_box)

\* ------------------------------------------------------------------- C4
\* C4: the k-th generated row is the last known row with k * pitch added to
\* every y_center and nothing else changed, so each generated row lies
\* strictly further in the pitch's direction than the row before it.
C4_RowsAreTranslations ==
  pc \in {"loop", "done"} =>
    /\ \A k \in 1..Len(generated_rows) :
          /\ Len(generated_rows[k]) = Len(LastKnownRow)
          /\ \A i \in 1..Len(LastKnownRow) :
                generated_rows[k][i] =
                  << X(LastKnownRow[i]), Y(LastKnownRow[i]) + k * row_pitch[1],
                     W(LastKnownRow[i]), H(LastKnownRow[i]) >>
    /\ \A k \in 1..Len(generated_rows) : \A i \in 1..Len(LastKnownRow) :
          LET prev == IF k = 1 THEN LastKnownRow ELSE generated_rows[k - 1]
          IN (Y(generated_rows[k][i]) - Y(prev[i])) * row_pitch[1] > 0
    /\ Len(generated_rows) = 0 \/ last_row = generated_rows[Len(generated_rows)]

C4_Witness ==
  /\ pc = "done"
  /\ Len(generated_rows) >= 2
  /\ Len(LastKnownRow) >= 2
  /\ \E i \in 1..Len(LastKnownRow) : H(LastKnownRow[i]) # W(LastKnownRow[i])

\* ------------------------------------------------------------------- C5
Perms(n) == { f \in [1..n -> 1..n] : \A i, j \in 1..n : f[i] = f[j] => i = j }

\* C5: group_into_rows returns the same rows, each with the same boxes in
\* the same order, for every permutation of the data boxes.
C5_OrderInvariant ==
  AfterGrouping =>
    \A f \in Perms(Len(data_cells)) :
      group_into_rows([i \in 1..Len(data_cells) |-> data_cells[f[i]]]) = all_rows

\* ------------------------------------------------------------------- C6
\* C6: when grouping yields fewer than two rows the function raises the
\* error of line 228 before a pitch is computed, and returns nothing.
C6_TooFewRowsFails ==
  (AfterGrouping /\ Len(all_rows) < 2) =>
    /\ pc = "check" \/ (pc = "error" /\ err = NeedTwoRows)
    /\ row_pitch = <<>>
    /\ generated_rows = <<>>
    /\ result = <<>>

C6_Witness ==
  /\ pc = "error"
  /\ err = NeedTwoRows
  /\ Len(all_rows) = 1
  /\ Len(all_rows[1]) >= 2

\* ------------------------------------------------------------------- C7
\* C7 (as claimed): an annotation set with fewer than two distinct class ids
\* makes the function fail: it generates no rows and returns nothing.
C7_Original ==
  (pc # "parse" /\ Len(annotations) < 2) => generated_rows = <<>> /\ result = <<>>

\* C7 (amended): an empty annotation set makes the function fail with the
\* error of line 167 and no rows are generated; the number of distinct class
\* ids is not checked.
C7_EmptySetFails ==
  (pc # "parse" /\ annotations = <<>>) =>
    /\ pc = "identify" \/ (pc = "error" /\ err = NoValidAnnotations)
    /\ table_box = None
    /\ generated_rows = <<>>
    /\ result = <<>>

C7_Witness ==
  /\ pc = "error"
  /\ err = NoValidAnnotations
  /\ Len(raw_data) >= 2

\* ------------------------------------------------------------------- C8
\* Classes with at most two boxes, as indices of annotations.
Qualifying == { c \in 1..Len(annotations) : Len(annotations[c].boxes) <= 2 }

RECURSIVE SumArea(_)
SumArea(boxes) ==
  IF boxes = <<>> THEN 0 ELSE Area(Head(boxes)) + SumArea(Tail(boxes))

TotalArea(c) == SumArea(annotations[c].boxes)

InClass(box, c) == \E i \in 1..Len(annotations[c].boxes) : annotations[c].boxes[i] = box

LargestBox(box) ==
  /\ \E i \in 1..Len(all_boxes) : all_boxes[i] = box
  /\ \A j \in 1..Len(all_boxes) : Area(all_boxes[j]) <= Area(box)

\* C8 (as claimed): when some class has at most two boxes the table comes
\* from the class of largest total area among those; the largest box of all
\* is the table only when no class has at most two boxes.
C8_Original ==
  Identified =>
    IF Qualifying # {}
    THEN \E c \in Qualifying :
           /\ \A d \in Qualifying : TotalArea(d) <= TotalArea(c)
           /\ InClass(table_box, c)
    ELSE LargestBox(table_box)

\* C8 (amended): whenever there are at least two boxes the table is the
\* largest-area box over all classes, the first of them in dictionary order,
\* whether or not a class has at most two boxes.
C8_TableIsLargestBox ==
  Identified =>
    /\ LargestBox(table_box)
    /\ \E i \in 1..Len(all_boxes) :
          /\ all_boxes[i] = table_box
          /\ \A j \in 1..(i - 1) : Area(all_boxes[j]) < Area(table_box)

C8_Witness ==
  /\ Identified
  /\ Qualifying # {}
  /\ \A c \in Qualifying :
        (\A d \in Qualifying : TotalArea(d) <= TotalArea(c)) => ~InClass(table_box, c)
  /\ \E i, j \in 1..Len(all_boxes) : i # j /\ Area(all_boxes[i]) = Area(table_box)
                                     /\ Area(all_boxes[j]) = Area(table_box)

\* ------------------------------------------------------------------- C9
\* Places in the sorted cells after which a row ends: the running sizes of
\* the rows.
RECURSIVE RowEnds(_, _)
RowEnds(rows, k) ==
  IF k = 0 THEN {} ELSE
  LET prev == RowEnds(rows, k - 1)
      last == IF k = 1 THEN 0 ELSE CHOOSE m \in prev : \A q \in prev : q <= m
  IN prev \cup { last + Len(rows[k]) }

StartsNewRow(i) == (i - 1) \in RowEnds(all_rows, Len(all_rows))

\* C9 (as claimed): in sorted order a box starts a new row exactly when its
\* y_center is more than the tolerance from the box before it; at exactly
\* the tolerance it joins the row.
C9_Original ==
  AfterGrouping =>
    LET s == SortCells(data_cells) IN
    \A i \in 2..Len(s) :
      StartsNewRow(i) <=> Abs(Y(s[i]) - Y(s[i - 1])) > y_tolerance

\* C9 (amended): in sorted order a box starts a new row exactly when its
\* y_center is at least the tolerance from the box before it; it joins the
\* row only when the difference is strictly less than the tolerance.
C9_BreakAtTolerance ==
  AfterGrouping =>
    LET s == SortCells(data_cells) IN
    /\ \A i \in 2..Len(s) :
         StartsNewRow(i) <=> Abs(Y(s[i]) - Y(s[i - 1])) >= y_tolerance
    /\ \A k \in 1..Len(all_rows) : Len(all_rows[k]) >= 1
    /\ Len(s) = 0 \/ Len(s) \in RowEnds(all_rows, Len(all_rows))

C9_Witness ==
  /\ AfterGrouping
  /\ LET s == SortCells(data_cells) IN
     /\ \E i \in 2..Len(s) :
          StartsNewRow(i) /\ Y(s[i]) - Y(s[i - 1]) = y_tolerance
     /\ \E i \in 2..Len(s) :
          ~StartsNewRow(i) /\ Y(s[i]) - Y(s[i - 1]) = y_tolerance - 1

\* ------------------------------------------------------------------ C10
\* C10: whenever grouping returns at least two rows, the pitch of line 231
\* is at least the tolerance, hence positive: the loop never runs with a
\* pitch <= 0.
C10_PitchAtLeastTolerance ==
  /\ (AfterGrouping /\ Len(all_rows) >= 2) =>
        RowPitch(all_rows) >= y_tolerance /\ RowPitch(all_rows) > 0
  /\ row_pitch # <<>> =>
        row_pitch[1] = RowPitch(all_rows) /\ row_pitch[1] >= y_tolerance
  /\ pc \in {"loop", "done"} => row_pitch # <<>>

C10_Witness ==
  /\ pc = "loop"
  /\ row_pitch[1] = y_tolerance
  /\ \E i \in 1..Len(all_rows[1]) : Y(all_rows[1][i]) < Y(all_rows[1][1])
====
